---- MODULE Spec2Model ----
(***************************************************************************)
(* code2md: walk a source tree, filter out non-source entries and          *)
(* concatenate the remaining text files into one Markdown document.        *)
(*                                                                         *)
(* Text is modelled at the level the code works at.  A string (a file      *)
(* name, a path string, an argument) is a sequence of one-character        *)
(* tokens.  File content is a sequence of bytes kept run-length encoded,   *)
(* <<[b |-> byte, n |-> count], ...>>, so that the 1024-byte sniff window   *)
(* and the 1 MiB size cap keep their real values.  A Rust String is its    *)
(* UTF-8 bytes.  A path is the sequence of its components, <<>> being "/". *)
(* An Option is a sequence of length 0 (None) or 1 (Some).                 *)
(***************************************************************************)
EXTENDS Naturals, Integers, Sequences, FiniteSets, TLC

None == <<>>
Some(x) == <<x>>

----------------------------------------------------------------------------
(* Policy tables                                                           *)

get_ignore_dirs ==
    { <<".","g","i","t">>, <<".","i","d","e","a">>, <<".","v","s","c","o","d","e">>,
      <<".","v","s">>, <<"_","_","p","y","c","a","c","h","e","_","_">>,
      <<"n","o","d","e","_","m","o","d","u","l","e","s">>, <<"v","e","n","v">>,
      <<".","v","e","n","v">>, <<"e","n","v">>, <<"d","i","s","t">>,
      <<"b","u","i","l","d">>, <<"t","a","r","g","e","t">>, <<"o","u","t">>,
      <<"b","i","n">>, <<"o","b","j">>, <<"d","e","b","u","g">>,
      <<"r","e","l","e","a","s","e">>, <<".","g","r","a","d","l","e">>,
      <<"c","a","p","t","u","r","e","s">>, <<"g","r","a","d","l","e">>,
      <<".","D","S","_","S","t","o","r","e">>, <<"c","o","v","e","r","a","g","e">>,
      <<".","n","e","x","t">>, <<".","n","u","x","t">> }

get_ignore_filenames ==
    { <<"g","r","a","d","l","e","w">>, <<"g","r","a","d","l","e","w",".","b","a","t">>,
      <<"m","v","n","w">>, <<"m","v","n","w",".","c","m","d">>,
      <<"l","o","c","a","l",".","p","r","o","p","e","r","t","i","e","s">>,
      <<"t","h","u","m","b","s",".","d","b">>,
      <<"d","e","s","k","t","o","p",".","i","n","i">>,
      <<"p","a","c","k","a","g","e","-","l","o","c","k",".","j","s","o","n">>,
      <<"y","a","r","n",".","l","o","c","k">>,
      <<"p","n","p","m","-","l","o","c","k",".","y","a","m","l">>,
      <<"c","a","r","g","o",".","l","o","c","k">>,
      <<"p","o","e","t","r","y",".","l","o","c","k">> }

get_ignore_extensions ==
    { <<".","p","n","g">>, <<".","j","p","g">>, <<".","j","p","e","g">>,
      <<".","g","i","f">>, <<".","b","m","p">>, <<".","i","c","o">>, <<".","s","v","g">>,
      <<".","w","e","b","p">>, <<".","t","i","f","f">>, <<".","m","p","3">>,
      <<".","m","p","4">>, <<".","w","a","v">>, <<".","a","v","i">>, <<".","m","o","v">>,
      <<".","e","x","e">>, <<".","d","l","l">>, <<".","s","o">>,
      <<".","d","y","l","i","b">>, <<".","b","i","n">>, <<".","a","p","k">>,
      <<".","a","a","b">>, <<".","j","a","r">>, <<".","w","a","r">>, <<".","z","i","p">>,
      <<".","t","a","r">>, <<".","g","z">>, <<".","7","z">>, <<".","r","a","r">>,
      <<".","i","s","o">>, <<".","c","a","b">>, <<".","p","y","c">>,
      <<".","c","l","a","s","s">>, <<".","o">>, <<".","o","b","j">>, <<".","p","d","b">>,
      <<".","s","u","o">>, <<".","d","b">>, <<".","s","q","l","i","t","e">>,
      <<".","s","q","l","i","t","e","3">>, <<".","l","o","c","k">>, <<".","l","o","g">>,
      <<".","m","d">> }

----------------------------------------------------------------------------
(* Strings                                                                 *)

UpperToLower ==
    [c \in {"A","B","C","D","E","F","G","H","I","J","K","L","M",
            "N","O","P","Q","R","S","T","U","V","W","X","Y","Z"} |->
        CASE c = "A" -> "a" [] c = "B" -> "b" [] c = "C" -> "c" [] c = "D" -> "d"
          [] c = "E" -> "e" [] c = "F" -> "f" [] c = "G" -> "g" [] c = "H" -> "h"
          [] c = "I" -> "i" [] c = "J" -> "j" [] c = "K" -> "k" [] c = "L" -> "l"
          [] c = "M" -> "m" [] c = "N" -> "n" [] c = "O" -> "o" [] c = "P" -> "p"
          [] c = "Q" -> "q" [] c = "R" -> "r" [] c = "S" -> "s" [] c = "T" -> "t"
          [] c = "U" -> "u" [] c = "V" -> "v" [] c = "W" -> "w" [] c = "X" -> "x"
          [] c = "Y" -> "y" [] c = "Z" -> "z"]

\* str::to_lowercase on the characters the model uses
to_lowercase(s) ==
    [i \in 1..Len(s) |-> IF s[i] \in DOMAIN UpperToLower THEN UpperToLower[s[i]] ELSE s[i]]

\* str::replace(from, to) for one-character patterns
replace(s, from, to) == [i \in 1..Len(s) |-> IF s[i] = from THEN to ELSE s[i]]

\* index of the last "." of a name, 0 when it has none
LastDot(name) ==
    LET dots == {i \in 1..Len(name) : name[i] = "."}
    IN  IF dots = {} THEN 0 ELSE CHOOSE i \in dots : \A j \in dots : j <= i

\* Path::extension of a file name: None without a dot, for "..", and when the
\* only dot is the leading one; otherwise what follows the last dot
extension(name) ==
    LET i == LastDot(name)
    IN  IF name = <<".", ".">> \/ i <= 1 THEN None
        ELSE Some(SubSeq(name, i + 1, Len(name)))

----------------------------------------------------------------------------
(* Paths: sequences of components                                          *)

RootPath == <<>>

\* Path::file_name
file_name(path) == IF path = <<>> THEN None ELSE Some(path[Len(path)])

\* Path::parent
parent(path) == IF path = <<>> THEN None ELSE Some(SubSeq(path, 1, Len(path) - 1))

\* Path::join with a single component
join(path, name) == Append(path, name)

\* Option::unwrap_or
unwrap_or(opt, dflt) == IF opt = None THEN dflt ELSE opt[1]

\* the components of a path string, split at "/"
RECURSIVE Components(_, _)
Components(s, cur) ==
    IF s = <<>> THEN (IF cur = <<>> THEN <<>> ELSE <<cur>>)
    ELSE IF Head(s) = "/"
         THEN (IF cur = <<>> THEN <<>> ELSE <<cur>>) \o Components(Tail(s), <<>>)
         ELSE Components(Tail(s), Append(cur, Head(s)))

\* Display of a relative path: its components joined with "/"
RECURSIVE display(_)
display(path) ==
    IF path = <<>> THEN <<>>
    ELSE IF Len(path) = 1 THEN path[1]
    ELSE path[1] \o <<"/">> \o display(Tail(path))

\* Path::strip_prefix: the components after the prefix, None when it is no prefix
strip_prefix(path, prefix) ==
    IF Len(prefix) <= Len(path) /\ SubSeq(path, 1, Len(prefix)) = prefix
    THEN Some(SubSeq(path, Len(prefix) + 1, Len(path)))
    ELSE None

----------------------------------------------------------------------------
(* Bytes, run-length encoded                                               *)

NUL == "x00"
\* the grave accent (0x60) of a code fence
BT == "x60"
\* the characters char::is_whitespace accepts (the White_Space property),
\* each as its UTF-8 bytes: U+0009..U+000D, U+0020, U+0085, U+00A0, U+1680,
\* U+2000..U+200A, U+2028, U+2029, U+202F, U+205F, U+3000
AsciiWhitespace == {"\t", "\n", "x0B", "x0C", "\r", " "}
Whitespace ==
    {<<a>> : a \in AsciiWhitespace}
        \cup {<<"xC2", "x85">>, <<"xC2", "xA0">>, <<"xE1", "x9A", "x80">>,
              <<"xE2", "x81", "x9F">>, <<"xE3", "x80", "x80">>}
        \cup {<<"xE2", "x80", a>> :
                a \in {"x80", "x81", "x82", "x83", "x84", "x85", "x86", "x87", "x88",
                       "x89", "x8A", "xA8", "xA9", "xAF"}}
\* the bytes above 0x7F the model uses: the lead bytes of two- and
\* three-byte sequences (whose second byte may be any continuation byte),
\* continuation bytes, and a byte that no sequence holds
Lead2 == {"xC2"}
Lead3 == {"xE1", "xE2", "xE3", "xEF"}
Continuation == {"x80", "x81", "x82", "x83", "x84", "x85", "x86", "x87", "x88", "x89",
                 "x8A", "x9A", "x9F", "xA0", "xA8", "xA9", "xAF", "xBD", "xBF"}
NonAscii == Lead2 \cup Lead3 \cup Continuation \cup {"xFF"}
\* U+FFFD REPLACEMENT CHARACTER in UTF-8
REPLACEMENT == <<[b |-> "xEF", n |-> 1], [b |-> "xBF", n |-> 1], [b |-> "xBD", n |-> 1]>>

\* Size, Take and Drop split the sequence in halves: the recursion is as
\* deep as the logarithm of the number of runs

\* the number of bytes
RECURSIVE Size(_)
Size(d) ==
    IF d = <<>> THEN 0
    ELSE IF Len(d) = 1 THEN d[1].n
    ELSE Size(SubSeq(d, 1, Len(d) \div 2)) + Size(SubSeq(d, Len(d) \div 2 + 1, Len(d)))

\* concatenation of two canonical encodings (no empty run, no two adjacent
\* runs of the same byte), canonical again
Cat(a, c) ==
    IF a = <<>> THEN c
    ELSE IF c = <<>> THEN a
    ELSE IF a[Len(a)].b = c[1].b
         THEN SubSeq(a, 1, Len(a) - 1) \o <<[b |-> c[1].b, n |-> a[Len(a)].n + c[1].n]>>
                    \o Tail(c)
         ELSE a \o c

\* the first k bytes
RECURSIVE Take(_, _)
Take(d, k) ==
    IF d = <<>> \/ k = 0 THEN <<>>
    ELSE IF Len(d) = 1 THEN <<[b |-> d[1].b, n |-> IF d[1].n <= k THEN d[1].n ELSE k]>>
    ELSE LET left == SubSeq(d, 1, Len(d) \div 2)
             right == SubSeq(d, Len(d) \div 2 + 1, Len(d))
         IN  IF k <= Size(left) THEN Take(left, k) ELSE left \o Take(right, k - Size(left))

\* all but the first k bytes
RECURSIVE Drop(_, _)
Drop(d, k) ==
    IF d = <<>> \/ k = 0 THEN d
    ELSE IF Len(d) = 1
         THEN (IF d[1].n <= k THEN <<>> ELSE <<[b |-> d[1].b, n |-> d[1].n - k]>>)
    ELSE LET left == SubSeq(d, 1, Len(d) \div 2)
             right == SubSeq(d, Len(d) \div 2 + 1, Len(d))
         IN  IF k < Size(left) THEN Drop(left, k) \o right ELSE Drop(right, k - Size(left))

\* the i-th byte, None past the end
ByteAt(d, i) == LET r == Drop(d, i - 1) IN IF r = <<>> THEN None ELSE Some(r[1].b)

\* slice::contains
contains(d, byte) == \E i \in 1..Len(d) : d[i].b = byte /\ d[i].n > 0

\* the UTF-8 bytes of a string of ASCII characters: one run for each
\* stretch of equal characters
RECURSIVE Utf8(_)
Utf8(s) ==
    IF s = <<>> THEN <<>>
    ELSE IF Len(s) = 1 THEN <<[b |-> s[1], n |-> 1]>>
    ELSE Cat(Utf8(SubSeq(s, 1, Len(s) \div 2)), Utf8(SubSeq(s, Len(s) \div 2 + 1, Len(s))))

\* String::from_utf8_lossy, the String held as its UTF-8 bytes: ASCII stays,
\* a well-formed two- or three-byte sequence stays, every maximal ill-formed
\* subsequence becomes U+FFFD
RECURSIVE from_utf8_lossy(_)
from_utf8_lossy(d) ==
    LET high == {i \in 1..Len(d) : d[i].b \in NonAscii}
    IN  IF high = {} THEN d
        ELSE LET i == CHOOSE j \in high : \A h \in high : j <= h
                 ascii == SubSeq(d, 1, i - 1)
                 rest == SubSeq(d, i, Len(d))
                 b1 == ByteAt(rest, 2)
                 b2 == ByteAt(rest, 3)
                 second == b1 # None /\ b1[1] \in Continuation
                 third == b2 # None /\ b2[1] \in Continuation
                 valid == IF rest[1].b \in Lead2 /\ second THEN 2
                          ELSE IF rest[1].b \in Lead3 /\ second /\ third THEN 3
                          ELSE 0
                 bad == IF rest[1].b \in Lead3 /\ second THEN 2 ELSE 1
             IN  IF valid > 0
                 THEN Cat(Cat(ascii, Take(rest, valid)), from_utf8_lossy(Drop(rest, valid)))
                 ELSE Cat(Cat(ascii, REPLACEMENT), from_utf8_lossy(Drop(rest, bad)))

\* the first w bytes of d, one by one
CharAt(d, w) == [k \in 1..w |-> unwrap_or(ByteAt(d, k), "")]

\* str::trim().is_empty() on well-formed UTF-8: every character is white space
trim_is_empty(content) ==
    \A i \in 1..Len(content) :
        IF content[i].b \in Lead2
        THEN CharAt(SubSeq(content, i, Len(content)), 2) \in Whitespace
        ELSE IF content[i].b \in Lead3
        THEN CharAt(SubSeq(content, i, Len(content)), 3) \in Whitespace
        ELSE IF content[i].b \in Continuation THEN TRUE
        ELSE <<content[i].b>> \in Whitespace

----------------------------------------------------------------------------
(* The file system                                                         *)
(* A node is [kind, name, parent, kids, data, target, fault]: kind is       *)
(* "absent", "dir", "file" or "link"; kids is a directory's listing, in the *)
(* order the file system returns it; data is a file's content; target is a *)
(* symbolic link's (absolute) path; fault is an injected I/O failure:       *)
(* "stat" (the walker cannot stat the entry), "readdir" (the directory      *)
(* cannot be listed), "open" (the file cannot be opened), "sniff" (the      *)
(* first read of the open file fails), "read" (the full read fails).        *)

Root == "/"
\* the slot a newly created output file takes
NewId == "new"
Nodes == {Root, "R", "D", "E", "f4", "f5", "f6", "X", NewId}
\* how many symbolic links a path resolution follows before giving up
MaxLinks == 2

Absent == [kind |-> "absent", name |-> <<>>, parent |-> Root, kids |-> <<>>,
           data |-> <<>>, target |-> <<>>, fault |-> "none"]

\* the entry of directory d called name
Child(f, d, name) ==
    LET hit == {i \in 1..Len(f[d].kids) : f[f[d].kids[i]].name = name}
    IN  IF hit = {} THEN None ELSE Some(f[d].kids[CHOOSE i \in hit : TRUE])

\* the real path of a node
RECURSIVE PathOf(_, _)
PathOf(f, id) == IF id = Root THEN RootPath ELSE Append(PathOf(f, f[id].parent), f[id].name)

\* path resolution from node cur, following symbolic links: the node reached
RECURSIVE WalkPath(_, _, _, _)
WalkPath(f, cur, comps, fuel) ==
    IF comps = <<>> THEN Some(cur)
    ELSE IF f[cur].kind # "dir" THEN None
    ELSE IF Head(comps) = <<".">> THEN WalkPath(f, cur, Tail(comps), fuel)
    ELSE IF Head(comps) = <<".", ".">> THEN WalkPath(f, f[cur].parent, Tail(comps), fuel)
    ELSE LET k == Child(f, cur, Head(comps))
         IN  IF k = None THEN None
             ELSE IF f[k[1]].kind = "link"
                  THEN IF fuel = 0 THEN None
                       ELSE WalkPath(f, Root, f[k[1]].target \o Tail(comps), fuel - 1)
                  ELSE WalkPath(f, k[1], Tail(comps), fuel)

Resolve(f, comps) == WalkPath(f, Root, comps, MaxLinks)

\* Path::canonicalize: the real path of what the path names, None on error
canonicalize(f, comps) ==
    LET r == Resolve(f, comps) IN IF r = None THEN None ELSE Some(PathOf(f, r[1]))

\* Path::new(s).canonicalize() for a path string, in working directory cwd:
\* the empty string names nothing, a relative path starts at cwd, and a
\* path that ends in "/" must name a directory
canonicalize_str(f, dir, s) ==
    IF s = <<>> THEN None
    ELSE LET r == WalkPath(f, IF s[1] = "/" THEN Root ELSE dir, Components(s, <<>>), MaxLinks)
         IN  IF r = None \/ (s[Len(s)] = "/" /\ f[r[1]].kind # "dir") THEN None
             ELSE Some(PathOf(f, r[1]))

\* Path::is_dir (follows symbolic links)
is_dir(f, comps) ==
    LET r == Resolve(f, comps) IN r # None /\ f[r[1]].kind = "dir"

\* Path::metadata().len() (follows symbolic links), None on error
metadata_len(f, comps) ==
    LET r == Resolve(f, comps) IN IF r = None THEN None ELSE Some(Size(f[r[1]].data))

\* the node File::open reads, None when the open fails
open(f, comps) ==
    LET r == Resolve(f, comps)
    IN  IF r = None \/ f[r[1]].fault = "open" THEN None ELSE r

\* fs::read: the whole content, None on error
read(f, comps) ==
    LET r == open(f, comps)
    IN  IF r = None \/ f[r[1]].kind # "file" \/ f[r[1]].fault \in {"sniff", "read"}
        THEN None ELSE Some(f[r[1]].data)

\* where File::create lands: [ok, new, id, dir, name]; new says that the
\* file does not exist yet and is to be created in dir under name, as node id
RECURSIVE CreateTarget(_, _, _)
CreateTarget(f, comps, fuel) ==
    LET fail == [ok |-> FALSE, new |-> FALSE, id |-> NewId, dir |-> Root, name |-> <<>>]
        d == IF comps = <<>> THEN None ELSE Resolve(f, SubSeq(comps, 1, Len(comps) - 1))
    IN  IF d = None \/ f[d[1]].kind # "dir" THEN fail
        ELSE LET k == Child(f, d[1], comps[Len(comps)])
             IN  IF k = None
                 THEN [ok |-> f[NewId].kind = "absent", new |-> TRUE, id |-> NewId,
                       dir |-> d[1], name |-> comps[Len(comps)]]
                 ELSE IF f[k[1]].kind = "file"
                      THEN [ok |-> TRUE, new |-> FALSE, id |-> k[1], dir |-> d[1],
                            name |-> f[k[1]].name]
                 ELSE IF f[k[1]].kind = "link" /\ fuel > 0
                      THEN CreateTarget(f, f[k[1]].target, fuel - 1)
                 ELSE fail

\* seq with x inserted after its first pos elements
InsertAt(seq, pos, x) == SubSeq(seq, 1, pos) \o <<x>> \o SubSeq(seq, pos + 1, Len(seq))

\* File::create without the truncation of a file that exists: what a later
\* run writes would follow what is there
create_keeping(f, t, pos) ==
    IF t.new
    THEN [f EXCEPT ![NewId] = [Absent EXCEPT !.kind = "file", !.name = t.name,
                                             !.parent = t.dir],
                   ![t.dir].kids = InsertAt(@, pos, NewId)]
    ELSE f

\* File::create: the file system with the file created (at listing position
\* pos of its directory) or truncated
create(f, t, pos) ==
    IF t.new
    THEN [f EXCEPT ![NewId] = [Absent EXCEPT !.kind = "file", !.name = t.name,
                                             !.parent = t.dir],
                   ![t.dir].kids = InsertAt(@, pos, NewId)]
    ELSE [f EXCEPT ![t.id].data = <<>>]

----------------------------------------------------------------------------
(* The program                                                             *)

\* parse_args: args[1] is the program name, args[2] the path
parse_args(argv) ==
    IF Len(argv) < 2 THEN None
    ELSE Some([path |-> argv[2],
               save_inside |-> \E i \in 1..Len(argv) : argv[i] = <<"-", "i">>])

\* the base name used when the resolved input has no file name
DefaultName == <<"u9879", "u76EE", "u4EE3", "u7801", "u6587", "u6863">>

\* the output file's name
OutputName(src) == unwrap_or(file_name(src), DefaultName) \o <<".", "m", "d">>

\* an output path that does not depend on "-i": always beside the input
OutputPathBeside(f, src, inside) == join(unwrap_or(parent(src), src), OutputName(src))

\* the output file's path
OutputPath(f, src, inside) ==
    IF is_dir(f, src)
    THEN IF inside THEN join(src, OutputName(src))
         ELSE join(unwrap_or(parent(src), src), OutputName(src))
    ELSE join(unwrap_or(parent(src), src), OutputName(src))

\* DirEntry::file_name: the last component, the whole path when there is none
entry_file_name(f, e) == IF e = Root THEN <<"/">> ELSE f[e].name

\* a classifier that knows hidden directories only, not the table of
\* directory names
is_hidden_only(f, e) ==
    LET name == entry_file_name(f, e)
    IN  IF f[e].kind = "dir"
        THEN name # <<>> /\ name[1] = "." /\ Len(name) > 1
                /\ name # <<".", "g", "i", "t", "h", "u", "b">>
        ELSE to_lowercase(name) \in get_ignore_filenames

\* a classifier for directories only, one that lets every file through
is_ignored_dir(f, e) ==
    LET name == entry_file_name(f, e)
    IN  /\ f[e].kind = "dir"
        /\ \/ (name # <<>> /\ name[1] = "." /\ Len(name) > 1
                    /\ name # <<".", "g", "i", "t", "h", "u", "b">>)
           \/ name \in get_ignore_dirs

\* is_hidden_or_ignored, on the entry at node e (file_type does not follow links)
is_hidden_or_ignored(f, e) ==
    LET name == entry_file_name(f, e)
    IN  IF f[e].kind = "dir"
        THEN \/ (name # <<>> /\ name[1] = "." /\ Len(name) > 1
                    /\ name # <<".", "g", "i", "t", "h", "u", "b">>)
             \/ name \in get_ignore_dirs
        ELSE to_lowercase(name) \in get_ignore_filenames

SniffLen == 1024

\* is_text_file
is_text_file(f, path) ==
    LET r == open(f, path)
    IN  IF r = None THEN FALSE
        ELSE IF f[r[1]].kind # "file" \/ f[r[1]].fault = "sniff" THEN FALSE
        ELSE LET buffer == Take(f[r[1]].data, SniffLen)
             IN  IF Size(buffer) = 0 THEN TRUE ELSE ~contains(buffer, NUL)

SizeCap == 1048576

\* a self-exclusion by file name alone
is_output_by_name(f, path, out_name, out_abs) == file_name(path) = Some(out_name)

\* the output file itself: same file name, or same canonical path
is_output(f, path, out_name, out_abs) ==
    \/ file_name(path) = Some(out_name)
    \/ LET abs == canonicalize(f, path) IN abs # None /\ abs[1] = out_abs

\* the extension filter
extension_ignored(path) ==
    LET ext == extension(path[Len(path)])
    IN  ext # None /\ (<<".">> \o to_lowercase(ext[1])) \in get_ignore_extensions

\* a size cap that rejects a file of exactly the cap
too_large_at_cap(f, path) ==
    LET len == metadata_len(f, path) IN len # None /\ len[1] >= SizeCap

\* the size cap; a failing metadata call skips the check
too_large(f, path) ==
    LET len == metadata_len(f, path) IN len # None /\ len[1] > SizeCap

\* the loop body's filters, in the code's order: the first one that rejects
\* the file, "emit" when none does
Verdict(f, path, out_name, out_abs) ==
    IF is_output(f, path, out_name, out_abs) THEN "self"
    ELSE IF extension_ignored(path) THEN "extension"
    ELSE IF too_large(f, path) THEN "size"
    ELSE IF ~is_text_file(f, path) THEN "binary"
    ELSE IF read(f, path) = None THEN "unreadable"
    ELSE IF trim_is_empty(from_utf8_lossy(read(f, path)[1])) THEN "empty"
    ELSE "emit"

\* the language tag of the fence: the lowercased extension, empty without one
file_ext(path) == to_lowercase(unwrap_or(extension(path[Len(path)]), <<>>))

\* a heading's path relative to the parent of the source root
path_str_from_parent(path, src) ==
    replace(display(unwrap_or(strip_prefix(path, unwrap_or(parent(src), src)), path)),
            "\\", "/")

\* the heading's path: relative to the source root, "\" replaced by "/"
path_str(path, src) == replace(display(unwrap_or(strip_prefix(path, src), path)), "\\", "/")

\* what the four writeln! calls hand to the writer, piece by piece
SectionPieces(path, src, content) ==
    << Utf8(<<"#", "#", " ", "F", "i", "l", "e", ":", " ">>), Utf8(path_str(path, src)),
       Utf8(<<"\n", "\n">>),
       Utf8(<<BT, BT, BT>>), Utf8(file_ext(path)), Utf8(<<"\n">>),
       content, Utf8(<<"\n">>),
       Utf8(<<BT, BT, BT, "\n", "\n">>) >>

\* capacity of the BufWriter
BufCap == 8192

\* BufWriter::flush_buf on w = [buf, out, ok]: out is the file's content
flush_buf(w, full) ==
    IF ~w.ok \/ w.buf = <<>> THEN w
    ELSE IF full THEN [w EXCEPT !.ok = FALSE]
    ELSE [buf |-> <<>>, out |-> Cat(w.out, w.buf), ok |-> TRUE]

\* BufWriter::write_all of one piece
write_all(w, piece, full) ==
    IF ~w.ok THEN w
    ELSE IF Size(piece) < BufCap - Size(w.buf) THEN [w EXCEPT !.buf = Cat(w.buf, piece)]
    ELSE LET w1 == IF Size(piece) > BufCap - Size(w.buf) THEN flush_buf(w, full) ELSE w
         IN  IF ~w1.ok THEN w1
             ELSE IF Size(piece) >= BufCap
                  THEN IF full THEN [w1 EXCEPT !.ok = FALSE]
                       ELSE [w1 EXCEPT !.out = Cat(w1.out, piece)]
                  ELSE [w1 EXCEPT !.buf = Cat(w1.buf, piece)]

RECURSIVE write_pieces(_, _, _)
write_pieces(w, pieces, full) ==
    IF pieces = <<>> THEN w
    ELSE write_pieces(write_all(w, Head(pieces), full), Tail(pieces), full)

----------------------------------------------------------------------------
(* State                                                                   *)

VARIABLES
    args,        \* the command line, program name first
    cwd,         \* the working directory, a node of the file system
    fs,          \* the file system
    diskFull,    \* the volume of the output file has no space left
    run,         \* which run of the tool this is
    pc,          \* "start", "walk" or "exit"
    exitCode,    \* the process's exit status, once pc = "exit"
    cause,       \* why the run ended: "", "noargs", "badpath", "nocreate", "write", "done"
    source_path, \* run_app's source_path
    save_inside, \* args.save_inside
    output_path, \* run_app's output_path
    out_name,    \* out_file_name_os
    out_abs,     \* out_file_abs
    outFile,     \* the node the open output file is, None before File::create
    stack,       \* the walker: entries still to yield, <<[id, err]>>
    buf,         \* the BufWriter's buffer
    emitted,     \* history: the entries a section was written for, in order
    entered,     \* history: the directories the walker descended into
    prevOut      \* history: the output file's content after the previous run

vars == <<args, cwd, fs, diskFull, run, pc, exitCode, cause, source_path, save_inside,
          output_path, out_name, out_abs, outFile, stack, buf, emitted, entered, prevOut>>

locals == <<source_path, save_inside, output_path, out_name, out_abs, outFile,
            stack, buf, emitted, entered>>

\* how many times the tool is run in a row on the same tree
MaxRuns == 2

\* an exit that always reports success
ExitZero(code, why) == pc' = "exit" /\ exitCode' = 0 /\ cause' = why

Exit(code, why) == pc' = "exit" /\ exitCode' = code /\ cause' = why

\* the entries the walker yields after a directory it descends into: an
\* error when the directory cannot be listed, else its entries in listing
\* order, each an error when it cannot be stat-ed
Listing(f, d) ==
    IF f[d].fault = "readdir" THEN <<[id |-> d, err |-> TRUE]>>
    ELSE [i \in 1..Len(f[d].kids) |->
            [id |-> f[d].kids[i], err |-> f[f[d].kids[i]].fault = "stat"]]

----------------------------------------------------------------------------
(* Inputs: file contents, directory entries, trees and command lines       *)

Run(b, n) == [b |-> b, n |-> n]

Dir(name, up, kids, fault) ==
    [kind |-> "dir", name |-> name, parent |-> up, kids |-> kids, data |-> <<>>,
     target |-> <<>>, fault |-> fault]

File(name, up, data, fault) ==
    [kind |-> "file", name |-> name, parent |-> up, kids |-> <<>>, data |-> data,
     target |-> <<>>, fault |-> fault]

Link(name, up, target) ==
    [kind |-> "link", name |-> name, parent |-> up, kids |-> <<>>, data |-> <<>>,
     target |-> target, fault |-> "none"]

Hello == Utf8(<<"h", "e", "l", "l", "o">>)
\* a text file of exactly the size cap, and one byte more
AtCap == <<Run("a", SizeCap)>>
OverCap == <<Run("a", SizeCap + 1)>>
\* a text file as long as the writer's buffer
FillsBuffer == <<Run("z", BufCap)>>
\* a zero byte as the last byte of the sniffed prefix, and as the first after it
NulInside == <<Run("a", SniffLen - 1), Run(NUL, 1), Run("b", 3)>>
NulBeyond == <<Run("a", SniffLen), Run(NUL, 1), Run("b", 3)>>

\* [name, data, fault] of the files the trees are made of
FileKinds ==
    { [name |-> <<"m", "a", "i", "n", ".", "t", "x", "t">>, data |-> Hello, fault |-> "none"],
      [name |-> <<"p", "h", "o", "t", "o", ".", "P", "N", "G">>, data |-> Hello, fault |-> "none"],
      [name |-> <<"n", "o", "t", "e", "s", ".", "m", "d">>, data |-> Hello, fault |-> "none"],
      [name |-> <<"r", "e", "a", "d", "m", "e">>, data |-> Hello, fault |-> "none"],
      [name |-> <<".", "e", "n", "v">>, data |-> Hello, fault |-> "none"],
      [name |-> <<"t", "r", "a", "i", "l", ".">>, data |-> Hello, fault |-> "none"],
      [name |-> <<"a", "\\", "b", ".", "R", "s">>, data |-> Hello, fault |-> "none"],
      [name |-> <<"g", "r", "a", "d", "l", "e", "w">>, data |-> Hello, fault |-> "none"],
      [name |-> <<"G", "r", "a", "d", "l", "e", "w", ".", "B", "A", "T">>, data |-> Hello, fault |-> "none"],
      [name |-> <<"t", "a", "r", "g", "e", "t">>, data |-> Hello, fault |-> "none"],
      [name |-> <<"c", "a", "p", ".", "t", "x", "t">>, data |-> AtCap, fault |-> "none"],
      [name |-> <<"o", "v", "e", "r", ".", "t", "x", "t">>, data |-> OverCap, fault |-> "none"],
      [name |-> <<"l", "o", "n", "g", ".", "t", "x", "t">>, data |-> FillsBuffer, fault |-> "none"],
      [name |-> <<"n", "u", "l", ".", "t", "x", "t">>, data |-> <<Run("a", 2), Run(NUL, 1), Run("b", 2)>>, fault |-> "none"],
      [name |-> <<"e", "d", "g", "e", ".", "t", "x", "t">>, data |-> NulInside, fault |-> "none"],
      [name |-> <<"l", "a", "t", "e", ".", "t", "x", "t">>, data |-> NulBeyond, fault |-> "none"],
      [name |-> <<"e", "m", "p", "t", "y", ".", "t", "x", "t">>, data |-> <<>>, fault |-> "none"],
      [name |-> <<"b", "l", "a", "n", "k", ".", "t", "x", "t">>, data |-> <<Run(" ", 2), Run("\n", 1), Run("\t", 1)>>, fault |-> "none"],
      [name |-> <<"p", "a", "d", ".", "t", "x", "t">>, data |-> <<Run(" ", 1), Run("x", 1), Run("\n", 2)>>, fault |-> "none"],
      [name |-> <<"f", "f", ".", "t", "x", "t">>, data |-> <<Run("x0C", 1), Run("\n", 1), Run("x0B", 1)>>, fault |-> "none"],
      [name |-> <<"n", "b", "s", "p", ".", "t", "x", "t">>, data |-> <<Run("xC2", 1), Run("xA0", 1), Run("xE3", 1), Run("x80", 2), Run("xC2", 1), Run("x85", 1)>>, fault |-> "none"],
      [name |-> <<"t", "i", "e", ".", "t", "x", "t">>, data |-> <<Run(" ", 1), Run("xE2", 1), Run("x81", 1), Run("x80", 1)>>, fault |-> "none"],
      [name |-> <<"w", "i", "d", "e", ".", "t", "x", "t">>, data |-> <<Run("xE2", 1), Run("x80", 1), Run("xA8", 1), Run("x", 1), Run("xC2", 1)>>, fault |-> "none"],
      [name |-> <<"b", "a", "d", ".", "t", "x", "t">>, data |-> <<Run("xFF", 2), Run("o", 1), Run("xEF", 1), Run("xBF", 1)>>, fault |-> "none"],
      [name |-> <<"s", "t", "a", "t", ".", "t", "x", "t">>, data |-> Hello, fault |-> "stat"],
      [name |-> <<"o", "p", "e", "n", ".", "t", "x", "t">>, data |-> Hello, fault |-> "open"],
      [name |-> <<"s", "n", "i", "f", "f", ".", "t", "x", "t">>, data |-> Hello, fault |-> "sniff"],
      [name |-> <<"r", "e", "a", "d", ".", "t", "x", "t">>, data |-> Hello, fault |-> "read"] }

\* the second file of a tree is one of these three
FewFileKinds == {k \in FileKinds : k.name \in {<<"m", "a", "i", "n", ".", "t", "x", "t">>, <<"l", "o", "n", "g", ".", "t", "x", "t">>,
                                                    <<"r", "e", "a", "d", ".", "t", "x", "t">>}}

MainTxt == CHOOSE k \in FileKinds : k.name = <<"m", "a", "i", "n", ".", "t", "x", "t">>
DeepTxt == [name |-> <<"d", "e", "e", "p", ".", "t", "x", "t">>, data |-> Utf8(<<"d", "e", "e", "p">>), fault |-> "none"]

\* [name, fault] of the directories
DirKinds ==
    { [name |-> <<"s", "r", "c">>, fault |-> "none"],
      [name |-> <<".", "g", "i", "t">>, fault |-> "none"],
      [name |-> <<".", "x">>, fault |-> "none"],
      [name |-> <<".", "g", "i", "t", "h", "u", "b">>, fault |-> "none"],
      [name |-> <<".", "G", "i", "t", "H", "u", "b">>, fault |-> "none"],
      [name |-> <<"t", "a", "r", "g", "e", "t">>, fault |-> "none"],
      [name |-> <<"T", "a", "r", "g", "e", "t">>, fault |-> "none"],
      [name |-> <<"g", "r", "a", "d", "l", "e", "w">>, fault |-> "none"],
      [name |-> <<"s", "r", "c">>, fault |-> "readdir"],
      [name |-> <<"s", "r", "c">>, fault |-> "stat"] }

FewDirKinds == {k \in DirKinds : k.fault = "none" /\ k.name \in {<<"s", "r", "c">>, <<".", "x">>, <<"t", "a", "r", "g", "e", "t">>}}

SrcDir == [name |-> <<"s", "r", "c">>, fault |-> "none"]
ProjName == <<"p", "r", "o", "j">>
RootNames == {ProjName, <<"b", "u", "i", "l", "d">>, <<".", "h", "i", "d">>, <<".", "g", "i", "t", "h", "u", "b">>}

NoExtra == [kind |-> "absent"]

\* the extra entry of a tree: a ninth node X, in the directory up
Extras ==
    { \* a link, under another name, to where "-i" puts the output file
      [kind |-> "link", up |-> "R", name |-> <<"a", "l", "i", "a", "s", ".", "t", "x", "t">>, target |-> <<ProjName, <<"p", "r", "o", "j", ".", "m", "d">>>>],
      \* the output path of "-i" is a link to a file of the tree
      [kind |-> "link", up |-> "R", name |-> <<"p", "r", "o", "j", ".", "m", "d">>, target |-> <<ProjName, <<"s", "r", "c">>, <<"m", "a", "i", "n", ".", "t", "x", "t">>>>],
      \* the output path of "-i" is a link to a file that does not exist yet
      [kind |-> "link", up |-> "R", name |-> <<"p", "r", "o", "j", ".", "m", "d">>, target |-> <<ProjName, <<"s", "r", "c">>, <<"g", "e", "n", ".", "t", "x", "t">>>>],
      \* a link to a directory, a link to nothing, a link to itself
      [kind |-> "link", up |-> "R", name |-> <<"l", "n", "k">>, target |-> <<ProjName, <<"s", "r", "c">>>>],
      [kind |-> "link", up |-> "R", name |-> <<"d", "e", "a", "d", ".", "t", "x", "t">>, target |-> <<<<"n", "o", "w", "h", "e", "r", "e">>>>],
      [kind |-> "link", up |-> "R", name |-> <<"l", "o", "o", "p", ".", "t", "x", "t">>, target |-> <<ProjName, <<"l", "o", "o", "p", ".", "t", "x", "t">>>>],
      \* the output path is taken by a directory
      [kind |-> "dir", up |-> "R", name |-> <<"p", "r", "o", "j", ".", "m", "d">>],
      [kind |-> "dir", up |-> Root, name |-> <<"p", "r", "o", "j", ".", "m", "d">>],
      \* the output file of an earlier run
      [kind |-> "file", up |-> "R", name |-> <<"p", "r", "o", "j", ".", "m", "d">>, data |-> Utf8(<<"o", "l", "d">>)],
      [kind |-> "file", up |-> Root, name |-> <<"p", "r", "o", "j", ".", "m", "d">>, data |-> Utf8(<<"o", "l", "d">>)] }

ExtraNode(x) ==
    CASE x.kind = "absent" -> Absent
      [] x.kind = "link" -> Link(x.name, x.up, x.target)
      [] x.kind = "dir" -> Dir(x.name, x.up, <<>>, "none")
      [] x.kind = "file" -> File(x.name, x.up, x.data, "none")

ExtraIn(x, d) == IF x.kind # "absent" /\ x.up = d THEN <<"X">> ELSE <<>>

\* the tree  /R/{D/{E/{f4}, f5}, f6}  plus the extra entry
Tree(rName, d, e, k4, k5, k6, x) ==
    [n \in Nodes |->
        CASE n = Root -> Dir(<<>>, Root, <<"R">> \o ExtraIn(x, Root), "none")
          [] n = "R" -> Dir(rName, Root, <<"D", "f6">> \o ExtraIn(x, "R"), "none")
          [] n = "D" -> Dir(d.name, "R", <<"E", "f5">>, d.fault)
          [] n = "E" -> Dir(e.name, "D", <<"f4">>, e.fault)
          [] n = "f4" -> File(k4.name, "E", k4.data, k4.fault)
          [] n = "f5" -> File(k5.name, "D", k5.data, k5.fault)
          [] n = "f6" -> File(k6.name, "R", k6.data, k6.fault)
          [] n = "X" -> ExtraNode(x)
          [] n = NewId -> Absent]

Program == <<"c", "o", "d", "e", "2", "m", "d">>
Flag == <<"-", "i">>

\* the command lines, on a tree whose project directory is /R and whose
\* file f6 is /R/f6
Cmd(f, what) ==
    LET dir == <<"/">> \o f["R"].name
        file == dir \o <<"/">> \o f["f6"].name
    IN  CASE what = "none" -> <<Program>>
          [] what = "dir" -> <<Program, dir>>
          [] what = "dir -i" -> <<Program, dir, Flag>>
          [] what = "-i dir" -> <<Program, Flag, dir>>
          [] what = "file" -> <<Program, file>>
          [] what = "file -i" -> <<Program, file, Flag>>
          [] what = "/" -> <<Program, <<"/">>>>
          [] what = "/ -i" -> <<Program, <<"/">>, Flag>>
          [] what = "relative" -> <<Program, f["R"].name \o <<"/", ".", "/">> \o f["D"].name \o <<"/", ".", ".">>>>
          [] what = "missing" -> <<Program, <<"/", "n", "o", "p", "e">>>>
          [] what = "empty" -> <<Program, <<>>>>
          [] what = "dir/" -> <<Program, dir \o <<"/">>>>
          [] what = "file/" -> <<Program, file \o <<"/">>>>
          [] what = "." -> <<Program, <<".">>>>
          [] what = "sub" -> <<Program, f["D"].name>>

Cmds == {"none", "dir", "dir -i", "-i dir", "file", "file -i", "/", "/ -i", "relative",
         "missing", "empty", "dir/", "file/", ".", "sub"}

\* the runs: [tree, cmd, full, cwd].  The files vary, or the directories, or the
\* extra entry, or the command line.
Cases ==
    {[tree |-> Tree(ProjName, SrcDir, SrcDir, DeepTxt, k5, k6, NoExtra), cmd |-> c,
      full |-> FALSE, cwd |-> Root] :
        k5 \in FewFileKinds, k6 \in FileKinds, c \in {"dir", "dir -i"}}
    \cup {[tree |-> Tree(ProjName, SrcDir, SrcDir, DeepTxt, MainTxt, k6, NoExtra), cmd |-> c,
           full |-> b, cwd |-> Root] :
        k6 \in FileKinds, c \in {"file", "file -i"}, b \in BOOLEAN}
    \cup {[tree |-> Tree(r, d, e, DeepTxt, MainTxt, MainTxt, NoExtra), cmd |-> c,
           full |-> FALSE, cwd |-> Root] :
        r \in RootNames, d \in DirKinds, e \in FewDirKinds, c \in {"dir", "dir -i", "/"}}
    \cup {[tree |-> Tree(ProjName, SrcDir, SrcDir, DeepTxt, MainTxt, k6, x), cmd |-> c,
           full |-> FALSE, cwd |-> Root] :
        k6 \in FewFileKinds, x \in Extras, c \in {"dir", "dir -i", "/"}}
    \cup {[tree |-> Tree(r, SrcDir, SrcDir, DeepTxt, k5, MainTxt, NoExtra), cmd |-> c,
           full |-> b, cwd |-> Root] :
        r \in RootNames, k5 \in FewFileKinds, c \in Cmds, b \in BOOLEAN}
    \cup {[tree |-> Tree(ProjName, SrcDir, SrcDir, DeepTxt, MainTxt, MainTxt, NoExtra),
           cmd |-> c, full |-> FALSE, cwd |-> w] :
        c \in {"relative", ".", "sub", "dir"}, w \in {"R", "D"}}

Init ==
    /\ \E c \in Cases :
        /\ fs = c.tree
        /\ args = Cmd(c.tree, c.cmd)
        /\ cwd = c.cwd
        /\ diskFull = c.full
    /\ run = 1
    /\ pc = "start" /\ exitCode = 0 /\ cause = ""
    /\ source_path = <<>> /\ save_inside = FALSE /\ output_path = <<>>
    /\ out_name = <<>> /\ out_abs = <<>> /\ outFile = None
    /\ stack = <<>> /\ buf = <<>> /\ emitted = <<>> /\ entered = {}
    /\ prevOut = None

----------------------------------------------------------------------------
(* Actions                                                                 *)

\* parse_args returns None: nothing is done
NoArgs ==
    /\ pc = "start" /\ parse_args(args) = None
    /\ Exit(0, "noargs")
    /\ UNCHANGED <<args, cwd, fs, diskFull, run, locals, prevOut>>

\* canonicalize fails on the input path
BadPath ==
    /\ pc = "start" /\ parse_args(args) # None
    /\ canonicalize_str(fs, cwd, parse_args(args)[1].path) = None
    /\ save_inside' = parse_args(args)[1].save_inside
    /\ Exit(1, "badpath")
    /\ UNCHANGED <<args, cwd, fs, diskFull, run, source_path, output_path, out_name, out_abs,
                   outFile, stack, buf, emitted, entered, prevOut>>

\* File::create fails on the output path
CreateFails ==
    /\ pc = "start" /\ parse_args(args) # None
    /\ LET a == parse_args(args)[1]
           src == canonicalize_str(fs, cwd, a.path)
       IN  /\ src # None
           /\ ~CreateTarget(fs, OutputPath(fs, src[1], a.save_inside), MaxLinks).ok
           /\ source_path' = src[1]
           /\ save_inside' = a.save_inside
           /\ output_path' = OutputPath(fs, src[1], a.save_inside)
    /\ Exit(1, "nocreate")
    /\ UNCHANGED <<args, cwd, fs, diskFull, run, out_name, out_abs, outFile, stack, buf,
                   emitted, entered, prevOut>>

\* the setup succeeds: the output file is created or truncated, the walker
\* starts at the source path
Setup ==
    /\ pc = "start" /\ parse_args(args) # None
    /\ LET a == parse_args(args)[1]
           src == canonicalize_str(fs, cwd, a.path)
       IN  /\ src # None
           /\ LET out == OutputPath(fs, src[1], a.save_inside)
                  t == CreateTarget(fs, out, MaxLinks)
              IN  /\ t.ok
                  /\ \E pos \in 0..Len(fs[t.dir].kids) :
                        /\ fs' = create(fs, t, pos)
                  /\ source_path' = src[1]
                  /\ save_inside' = a.save_inside
                  /\ output_path' = out
                  /\ out_name' = unwrap_or(file_name(out), <<>>)
                  /\ out_abs' = unwrap_or(canonicalize(fs', out), out)
                  /\ outFile' = Some(t.id)
                  /\ stack' = <<[id |-> Resolve(fs, src[1])[1], err |-> FALSE]>>
    /\ buf' = <<>>
    /\ emitted' = <<>>
    /\ entered' = {}
    /\ pc' = "walk"
    /\ UNCHANGED <<args, cwd, diskFull, run, exitCode, cause, prevOut>>

\* an error of the walker that ends the walk instead
WalkErrorEndsWalk ==
    /\ pc = "walk" /\ stack # <<>> /\ stack[1].err
    /\ stack' = <<>>
    /\ UNCHANGED <<args, cwd, fs, diskFull, run, pc, exitCode, cause, source_path, save_inside,
                   output_path, out_name, out_abs, outFile, buf, emitted, entered, prevOut>>

\* the walker yields an error: the entry is skipped
WalkError ==
    /\ pc = "walk" /\ stack # <<>> /\ stack[1].err
    /\ stack' = Tail(stack)
    /\ UNCHANGED <<args, cwd, fs, diskFull, run, pc, exitCode, cause, source_path, save_inside,
                   output_path, out_name, out_abs, outFile, buf, emitted, entered, prevOut>>

\* filter_entry rejects the entry: it is not yielded, a directory is not entered
WalkPruned ==
    /\ pc = "walk" /\ stack # <<>> /\ ~stack[1].err
    /\ is_hidden_or_ignored(fs, stack[1].id)
    /\ stack' = Tail(stack)
    /\ UNCHANGED <<args, cwd, fs, diskFull, run, pc, exitCode, cause, source_path, save_inside,
                   output_path, out_name, out_abs, outFile, buf, emitted, entered, prevOut>>

\* the entry is a directory (or a link to one): nothing is written; the
\* walker enters a real directory next
WalkDirectory ==
    /\ pc = "walk" /\ stack # <<>> /\ ~stack[1].err
    /\ ~is_hidden_or_ignored(fs, stack[1].id)
    /\ is_dir(fs, PathOf(fs, stack[1].id))
    /\ stack' = (IF fs[stack[1].id].kind = "dir" THEN Listing(fs, stack[1].id) ELSE <<>>)
                    \o Tail(stack)
    /\ entered' = IF fs[stack[1].id].kind = "dir" THEN entered \cup {stack[1].id} ELSE entered
    /\ UNCHANGED <<args, cwd, fs, diskFull, run, pc, exitCode, cause, source_path, save_inside,
                   output_path, out_name, out_abs, outFile, buf, emitted, prevOut>>

\* a filter of the loop body rejects the file
WalkSkip ==
    /\ pc = "walk" /\ stack # <<>> /\ ~stack[1].err
    /\ ~is_hidden_or_ignored(fs, stack[1].id)
    /\ ~is_dir(fs, PathOf(fs, stack[1].id))
    /\ Verdict(fs, PathOf(fs, stack[1].id), out_name, out_abs) # "emit"
    /\ stack' = Tail(stack)
    /\ UNCHANGED <<args, cwd, fs, diskFull, run, pc, exitCode, cause, source_path, save_inside,
                   output_path, out_name, out_abs, outFile, buf, emitted, entered, prevOut>>

\* the writer after the section of the file at path is written to it
Written(f, path) ==
    write_pieces([buf |-> buf, out |-> f[outFile[1]].data, ok |-> TRUE],
                 SectionPieces(path, source_path, from_utf8_lossy(read(f, path)[1])),
                 diskFull)

\* the file passes every filter and its section is written
WalkEmit ==
    /\ pc = "walk" /\ stack # <<>> /\ ~stack[1].err
    /\ ~is_hidden_or_ignored(fs, stack[1].id)
    /\ ~is_dir(fs, PathOf(fs, stack[1].id))
    /\ Verdict(fs, PathOf(fs, stack[1].id), out_name, out_abs) = "emit"
    /\ LET w == Written(fs, PathOf(fs, stack[1].id))
       IN  /\ w.ok
           /\ buf' = w.buf
           /\ fs' = [fs EXCEPT ![outFile[1]].data = w.out]
    /\ emitted' = Append(emitted, stack[1].id)
    /\ stack' = Tail(stack)
    /\ UNCHANGED <<args, cwd, diskFull, run, pc, exitCode, cause, source_path, save_inside,
                   output_path, out_name, out_abs, outFile, entered, prevOut>>

\* the file passes every filter but a write of its section fails: run_app
\* returns the error, and the writer is dropped with what it still holds
WalkWriteError ==
    /\ pc = "walk" /\ stack # <<>> /\ ~stack[1].err
    /\ ~is_hidden_or_ignored(fs, stack[1].id)
    /\ ~is_dir(fs, PathOf(fs, stack[1].id))
    /\ Verdict(fs, PathOf(fs, stack[1].id), out_name, out_abs) = "emit"
    /\ ~Written(fs, PathOf(fs, stack[1].id)).ok
    /\ Exit(1, "write")
    /\ UNCHANGED <<args, cwd, fs, diskFull, run, locals, prevOut>>

\* the walk is over and the final flush succeeds
Finish ==
    /\ pc = "walk" /\ stack = <<>>
    /\ LET w == flush_buf([buf |-> buf, out |-> fs[outFile[1]].data, ok |-> TRUE], diskFull)
       IN  /\ w.ok
           /\ buf' = w.buf
           /\ fs' = [fs EXCEPT ![outFile[1]].data = w.out]
    /\ Exit(0, "done")
    /\ UNCHANGED <<args, cwd, diskFull, run, source_path, save_inside, output_path, out_name,
                   out_abs, outFile, stack, emitted, entered, prevOut>>

\* the walk is over and the final flush fails
FinishFlushError ==
    /\ pc = "walk" /\ stack = <<>>
    /\ ~flush_buf([buf |-> buf, out |-> <<>>, ok |-> TRUE], diskFull).ok
    /\ Exit(1, "write")
    /\ UNCHANGED <<args, cwd, fs, diskFull, run, locals, prevOut>>

\* the tool is run again, with the same arguments, on the tree as it is now
Rerun ==
    /\ pc = "exit" /\ run < MaxRuns
    /\ run' = run + 1
    /\ prevOut' = IF outFile = None THEN None ELSE Some(fs[outFile[1]].data)
    /\ pc' = "start" /\ exitCode' = 0 /\ cause' = ""
    /\ source_path' = <<>> /\ save_inside' = FALSE /\ output_path' = <<>>
    /\ out_name' = <<>> /\ out_abs' = <<>> /\ outFile' = None
    /\ stack' = <<>> /\ buf' = <<>> /\ emitted' = <<>> /\ entered' = {}
    /\ UNCHANGED <<args, cwd, fs, diskFull>>

Next ==
    \/ NoArgs \/ BadPath \/ CreateFails \/ Setup
    \/ WalkError \/ WalkPruned \/ WalkDirectory \/ WalkSkip \/ WalkEmit \/ WalkWriteError
    \/ Finish \/ FinishFlushError
    \/ Rerun

Spec == Init /\ [][Next]_vars

----------------------------------------------------------------------------
(* Properties                                                              *)

\* the setup succeeded: the output file is open and the walk has started
SetupDone == pc = "walk" \/ (pc = "exit" /\ cause \in {"write", "done"})

\* the run went through the whole walk and the final flush
Completed == pc = "exit" /\ cause = "done"

\* the node the walk starts at
SrcNode == Resolve(fs, source_path)[1]

\* "-i" is among the arguments
FlagGiven == \E i \in 1..Len(args) : args[i] = Flag

\* the nodes from the walk's root down to e, both included
RECURSIVE Chain(_, _, _)
Chain(f, root, e) == IF e = root THEN <<e>> ELSE Append(Chain(f, root, f[e].parent), e)

\* the names the traversal must not descend into
PrunedName(name) ==
    \/ (name # <<>> /\ name[1] = "." /\ Len(name) > 1 /\ name # <<".", "g", "i", "t", "h", "u", "b">>)
    \/ name \in get_ignore_dirs

\* the walker came across directory d: it is the root of the walk, or an
\* entry of a directory that was listed, and it could be stat-ed
Met(d) ==
    \/ d = SrcNode
    \/ (fs[d].parent \in entered /\ fs[fs[d].parent].fault # "readdir"
            /\ fs[d].fault # "stat"
            /\ \E i \in 1..Len(fs[fs[d].parent].kids) : fs[fs[d].parent].kids[i] = d)

\* C1: the traversal never descends into a directory whose name is hidden
\* (leading ".", longer than one character, not ".github") or is in the
\* ignored-directories table, so no file at any depth beneath one is emitted;
\* a directory named ".github" is descended into.
C1_NoDescentIntoIgnored ==
    SetupDone =>
        /\ \A d \in entered : ~PrunedName(entry_file_name(fs, d))
        /\ \A i \in 1..Len(emitted) :
              LET up == Chain(fs, SrcNode, emitted[i])
              IN  \A j \in 1..(Len(up) - 1) : ~PrunedName(entry_file_name(fs, up[j]))
        /\ Completed =>
              \A d \in Nodes :
                  (fs[d].kind = "dir" /\ entry_file_name(fs, d) = <<".", "g", "i", "t", "h", "u", "b">> /\ Met(d))
                      => d \in entered

\* a hidden directory below the root of the walk holds files, two levels
\* deep, that pass every filter, and none of them is in the output, while
\* the file beside the directory is
C1_Witness ==
    /\ Completed /\ "R" \in entered /\ "D" \notin entered
    /\ fs["D"].name = <<".", "x">>
    /\ Verdict(fs, PathOf(fs, "f4"), out_name, out_abs) = "emit"
    /\ Verdict(fs, PathOf(fs, "f5"), out_name, out_abs) = "emit"
    /\ emitted = <<"f6">>

\* C4: the output file is "<base name of the resolved input>.md" (a fixed
\* base name when the input has no file name), in the input directory with
\* "-i", in its parent without (in the directory itself when it has no
\* parent), and in the parent of an input file whatever the flag.
C4_OutputLocation ==
    (pc = "walk" \/ (pc = "exit" /\ cause \in {"nocreate", "write", "done"})) =>
        LET src == source_path
            base == IF src = <<>> THEN DefaultName ELSE src[Len(src)]
            up == IF src = <<>> THEN src ELSE SubSeq(src, 1, Len(src) - 1)
            dir == IF fs[SrcNode].kind = "dir" /\ FlagGiven THEN src ELSE up
        IN  output_path = Append(dir, base \o <<".", "m", "d">>)

\* the input is "/", which has neither a file name nor a parent
C4_Witness ==
    pc = "walk" /\ source_path = <<>> /\ ~FlagGiven /\ output_path = <<DefaultName \o <<".", "m", "d">>>>

\* C9: the entry classifier is applied to the root of the walk too: when the
\* input directory's own name is hidden or in the ignored-directories table,
\* or the input is a file whose lowercased name is in the ignored-file-names
\* table, nothing is emitted, and the run ends with exit code 0 and an
\* output file without sections.
C9_RootIsClassified ==
    (SetupDone /\ \/ (fs[SrcNode].kind = "dir" /\ PrunedName(entry_file_name(fs, SrcNode)))
                  \/ (fs[SrcNode].kind = "file"
                        /\ to_lowercase(fs[SrcNode].name) \in get_ignore_filenames)) =>
        /\ emitted = <<>> /\ entered = {}
        /\ pc = "exit" => (exitCode = 0 /\ fs[outFile[1]].data = <<>>)

\* the input directory is named "build" and holds files that pass every filter
C9_Witness ==
    /\ Completed /\ fs[SrcNode].kind = "dir" /\ source_path = <<<<"b", "u", "i", "l", "d">>>>
    /\ Verdict(fs, PathOf(fs, "f6"), out_name, out_abs) = "emit"
    /\ emitted = <<>>

\* the section of a file: heading, blank line, fence with the tag, the
\* content, closing fence, blank line
SectionOf(rel, tag, content) ==
    Cat(Cat(Cat(Cat(Utf8(<<"#", "#", " ", "F", "i", "l", "e", ":", " ">> \o rel \o <<"\n", "\n">>),
                    Utf8(<<BT, BT, BT>> \o tag \o <<"\n">>)),
                content),
            Utf8(<<"\n">>)),
        Utf8(<<BT, BT, BT, "\n", "\n">>))

\* C10: for an input that is a single regular file passing all filters, the
\* output, "<file name>.md" in the file's directory, holds exactly one
\* section, whose heading carries the empty relative path; for a directory
\* input every emitted file has a non-empty relative path.
C10_SingleFileHeading ==
    Completed =>
        /\ (fs[SrcNode].kind = "file" /\ ~is_hidden_or_ignored(fs, SrcNode)
                /\ Verdict(fs, source_path, out_name, out_abs) = "emit" /\ ~diskFull) =>
              /\ emitted = <<SrcNode>>
              /\ output_path = Append(SubSeq(source_path, 1, Len(source_path) - 1),
                                      fs[SrcNode].name \o <<".", "m", "d">>)
              /\ fs[outFile[1]].data =
                    SectionOf(<<>>, file_ext(source_path),
                              from_utf8_lossy(fs[SrcNode].data))
        /\ fs[SrcNode].kind = "dir" =>
              \A i \in 1..Len(emitted) :
                  /\ Len(PathOf(fs, emitted[i])) > Len(source_path)
                  /\ path_str(PathOf(fs, emitted[i]), source_path) # <<>>

\* the input file is /proj/main.txt
C10_Witness ==
    /\ Completed /\ fs[SrcNode].kind = "file" /\ emitted = <<"f6">>
    /\ source_path = <<ProjName, <<"m", "a", "i", "n", ".", "t", "x", "t">>>>
    /\ output_path = <<ProjName, <<"m", "a", "i", "n", ".", "t", "x", "t", ".", "m", "d">>>>

\* C3: no section is emitted for a file whose name is the output file's
\* name or whose canonical path is the output file's canonical path (its
\* plain path when that cannot be canonicalized); the output file, created
\* before the walk starts, is never read into its own content.
C3_SelfExclusion ==
    SetupDone =>
        /\ out_name = output_path[Len(output_path)]
        /\ out_abs = unwrap_or(canonicalize(fs, output_path), output_path)
        /\ \A i \in 1..Len(emitted) :
              LET path == PathOf(fs, emitted[i])
                  abs == canonicalize(fs, path)
              IN  /\ fs[emitted[i]].name # out_name
                  /\ abs = None \/ abs[1] # out_abs
                  /\ Resolve(fs, path) # outFile

\* the output file lies in the walked directory, content has reached it
\* before the walk is over, and a link to it under another name, with an
\* extension that is not ignored, was met after that
C3_Witness ==
    /\ Completed /\ fs["X"].kind = "link" /\ fs["X"].name = <<"a", "l", "i", "a", "s", ".", "t", "x", "t">>
    /\ "R" \in entered /\ Resolve(fs, PathOf(fs, "X")) = outFile
    /\ emitted = <<"f4", "f5", "f6">>
    /\ Size(fs[outFile[1]].data) > BufCap /\ Size(fs[outFile[1]].data) < SizeCap

\* C2: a second run on the unchanged tree, with the same arguments, leaves
\* an output file with the content the first run left, wherever the output
\* file is placed and also when it lies in the walked tree.
C2_Idempotent ==
    (pc = "exit" /\ run > 1) =>
        /\ outFile = None <=> prevOut = None
        /\ outFile # None => fs[outFile[1]].data = prevOut[1]

\* the second run met the first run's output file, which has sections
C2_Witness ==
    /\ Completed /\ run = 2 /\ FlagGiven /\ outFile = Some(NewId)
    /\ fs[NewId].parent \in entered
    /\ emitted # <<>> /\ prevOut # None /\ prevOut[1] # <<>>

\* C5 as claimed: with one directory path and one "-i", in either order,
\* the path is the input and the output file is put inside the directory
C5_FlagEitherOrder ==
    (pc # "start" /\ Len(args) = 3 /\ (args[2] = Flag) # (args[3] = Flag)) =>
        LET given == IF args[2] = Flag THEN args[3] ELSE args[2]
            dir == canonicalize_str(fs, cwd, given)
        IN  (dir # None /\ is_dir(fs, dir[1])) =>
                /\ cause # "badpath"
                /\ source_path = dir[1]
                /\ output_path = Append(dir[1], OutputName(dir[1]))

\* "-i" comes before the path of a directory that exists: the run takes
\* "-i" for the path, cannot resolve it, and ends with exit code 1 and no
\* output file
C5_Witness ==
    /\ pc = "exit" /\ args = <<Program, Flag, <<"/", "p", "r", "o", "j">>>>
    /\ is_dir(fs, <<ProjName>>)
    /\ cause = "badpath" /\ exitCode = 1 /\ outFile = None /\ fs[NewId].kind = "absent"

\* C6 as claimed: exit code 1 only when the input path cannot be resolved
\* or the output file cannot be created
C6_ExitOneOnlyOnSetupError ==
    (pc = "exit" /\ exitCode = 1) =>
        /\ Len(args) >= 2
        /\ outFile = None

\* C6, amended: the exit code is 1 exactly when the input path cannot be
\* resolved, the output file cannot be created, or a write or the final
\* flush to the output file fails; every other run exits with 0, among them
\* the run without a path argument (which creates no output file), the run
\* that finds no eligible file (which leaves an output file without
\* sections) and every run in which only reads of entries fail.
C6_ExitStatus ==
    pc = "exit" =>
        /\ exitCode = (IF cause \in {"badpath", "nocreate", "write"} THEN 1 ELSE 0)
        /\ cause \in {"noargs", "badpath", "nocreate", "write", "done"}
        /\ cause = "noargs" <=> Len(args) < 2
        /\ cause = "noargs" => (outFile = None /\ fs[NewId].kind = "absent")
        /\ cause = "badpath" <=>
              (Len(args) >= 2 /\ canonicalize_str(fs, cwd, args[2]) = None)
        /\ cause = "nocreate" => (outFile = None /\ Resolve(fs, output_path) # None
                                    /\ fs[Resolve(fs, output_path)[1]].kind = "dir")
        /\ cause = "write" => (diskFull /\ outFile # None)
        /\ cause = "done" =>
              /\ outFile # None
              /\ emitted # <<>> => ~diskFull
              /\ emitted = <<>> => fs[outFile[1]].data = <<>>

\* a section was to be written and the disk is full: exit code 1 after a
\* setup that succeeded
C6_Witness ==
    /\ pc = "exit" /\ exitCode = 1 /\ cause = "write" /\ outFile # None
    /\ Len(args) >= 2 /\ canonicalize_str(fs, cwd, args[2]) # None

\* the entries a walk from e comes to, parents before their entries, in
\* listing order: an entry in skip, or one the classifier rejects, is left
\* out with all that is below it; the entries of a directory in closed are
\* left out
RECURSIVE Preorder(_, _, _, _), PreorderEach(_, _, _, _)
Preorder(f, e, skip, closed) ==
    IF e \in skip \/ is_hidden_or_ignored(f, e) THEN <<>>
    ELSE <<e>> \o (IF f[e].kind = "dir" /\ e \notin closed
                   THEN PreorderEach(f, f[e].kids, skip, closed) ELSE <<>>)
PreorderEach(f, kids, skip, closed) ==
    IF kids = <<>> THEN <<>>
    ELSE Preorder(f, Head(kids), skip, closed) \o PreorderEach(f, Tail(kids), skip, closed)

\* the number of bytes before the i-th run
Before(d, i) == Size(SubSeq(d, 1, i - 1))

\* entry e, not a directory, passes all the filters of the loop body
Eligible(e) ==
    LET r == Resolve(fs, PathOf(fs, e))
        ext == extension(fs[e].name)
    IN  /\ r # None /\ r # outFile
        /\ ext = None \/ (<<".">> \o to_lowercase(ext[1])) \notin get_ignore_extensions
        /\ fs[r[1]].kind = "file" /\ fs[r[1]].fault \notin {"open", "sniff", "read"}
        /\ Size(fs[r[1]].data) <= 1048576
        /\ \A i \in 1..Len(fs[r[1]].data) :
              fs[r[1]].data[i].b = NUL => Before(fs[r[1]].data, i) >= 1024
        /\ ~trim_is_empty(from_utf8_lossy(fs[r[1]].data))

\* the names below the root of the walk that lead to e, joined with "/",
\* every "\" a "/"
RECURSIVE Slashed(_)
Slashed(names) ==
    IF names = <<>> THEN <<>>
    ELSE LET name == [i \in 1..Len(names[1]) |->
                        IF names[1][i] = "\\" THEN "/" ELSE names[1][i]]
         IN  IF Len(names) = 1 THEN name ELSE name \o <<"/">> \o Slashed(Tail(names))

Rel(e) == LET up == Chain(fs, SrcNode, e)
          IN  Slashed([i \in 1..(Len(up) - 1) |-> fs[up[i + 1]].name])

\* the lowercased extension of the entry's name, empty without one
Tag(e) == LET ext == extension(fs[e].name)
          IN  IF ext = None THEN <<>> ELSE to_lowercase(ext[1])

\* the sections of the entries of a list, one after the other
RECURSIVE Sections(_)
Sections(list) ==
    IF list = <<>> THEN <<>>
    ELSE Cat(SectionOf(Rel(list[1]), Tag(list[1]),
                       from_utf8_lossy(fs[Resolve(fs, PathOf(fs, list[1]))[1]].data)),
             Sections(Tail(list)))

\* the entries of listed directories for which the walker reports an error
\* (the root of the walk is no entry of a listing)
Unstatable == {n \in Nodes \ {SrcNode} : fs[n].fault = "stat"}

\* the entries the walker yields without an error
Yielded == Preorder(fs, SrcNode, Unstatable, {n \in Nodes : fs[n].fault = "readdir"})

IsCandidate(e) == fs[e].kind # "dir" /\ Eligible(e)

\* C8: the final output is exactly the concatenation, in the order the walk
\* comes to them, of one section for each yielded entry that is not a
\* directory and passes all filters (not the output file; no extension, or
\* one that is not ignored when lowercased; at most 1,048,576 bytes; no zero
\* byte among the first 1024; readable; decoded content not blank), each
\* section being the heading with the relative path, a blank line, the fence
\* with the lowercased extension, the decoded content, the closing fence and
\* a blank line.
C8_OutputIsSectionsOfEligible ==
    Completed =>
        /\ emitted = SelectSeq(Yielded, IsCandidate)
        /\ fs[outFile[1]].data = Sections(SelectSeq(Yielded, IsCandidate))

\* a file of exactly 1,048,576 bytes is in the output, after two others
C8_Witness ==
    /\ Completed /\ fs[SrcNode].kind = "dir"
    /\ Size(fs["f6"].data) = SizeCap
    /\ emitted = <<"f4", "f5", "f6">>
    /\ Size(fs[outFile[1]].data) > SizeCap

\* the entries with a recoverable error: the walker reports an error for
\* the entry, or the file cannot be opened, sniffed or read in full
Faulty ==
    {n \in Nodes :
        /\ fs[n].kind # "absent"
        /\ \/ n \in Unstatable
           \/ fs[n].fault \in {"readdir", "open", "sniff", "read"}
           \/ (fs[n].kind = "link" /\ Resolve(fs, PathOf(fs, n)) = None)}

\* what a run emits on the tree without the faulty entries
Unaffected == SelectSeq(Preorder(fs, SrcNode, Faulty, {}), IsCandidate)

\* C7: an entry with a recoverable error (an error of the walker, a file
\* that cannot be opened or sniffed, a full read that fails) is skipped and
\* nothing is written for it; the walk goes on to its end, and the other
\* entries that pass all filters are emitted in the order of a run on the
\* tree without the failing entries.
C7_FaultySkippedOthersEmitted ==
    (pc = "exit" /\ SetupDone /\ ~diskFull) =>
        /\ cause = "done"
        /\ \A i \in 1..Len(emitted) : emitted[i] \notin Faulty
        /\ emitted = Unaffected
        /\ fs[outFile[1]].data = Sections(Unaffected)

\* the second of three files cannot be read in full: the first and the
\* third are emitted
C7_Witness ==
    /\ Completed /\ fs["f5"].fault = "read" /\ fs["f5"].parent \in entered
    /\ Verdict(fs, PathOf(fs, "f5"), out_name, out_abs) = "unreadable"
    /\ emitted = <<"f4", "f6">>

====
